---------------------------- MODULE Spec2Model ----------------------------
(***************************************************************************)
(* Model of the jimaku front door (src/main.rs): process start-up in       *)
(* main/run/run_server, the choice between the plain and the encrypted     *)
(* serving mode, the encrypted accept loop with its per-connection handler *)
(* tasks (ClientHello peek, ALPN classification, handshake, request        *)
(* dispatch), signal handling, the set-up of the two rustls configs and    *)
(* the event loop that drives the certificate lifecycle manager.  The      *)
(* manager itself (rustls_acme::AcmeState) is not part of src/; its order  *)
(* state machine and its certificate record follow sections 3 and 4.1 of   *)
(* the design.                                                             *)
(*                                                                         *)
(* Library behaviour the program relies on:                                *)
(*  - tokio::spawn runs a task independently; a panic inside a spawned     *)
(*    task is caught by the runtime and ends that task only.               *)
(*  - rustls_acme::is_tls_alpn_challenge(hello) compares the ALPN list of  *)
(*    the ClientHello for equality with the one-element list               *)
(*    ["acme-tls/1"] (hello.alpn().into_iter().flatten().eq([NAME])).      *)
(*  - tokio installs the SIGINT/SIGTERM handlers only when                 *)
(*    shutdown_signal() is polled; until then the default disposition of   *)
(*    the signal (terminate the process) applies.                          *)
(*  - axum::serve(..).with_graceful_shutdown(sig) stops accepting when sig *)
(*    resolves, asks every connection to finish its in-flight request and  *)
(*    close, and returns when all connections are closed.                  *)
(***************************************************************************)
EXTENDS Integers, Sequences, FiniteSets, TLC

\* ------------------------------------------------------------------ bounds
MaxConn == 2          \* number of client connections modelled
MaxAlpnLen == 2       \* longest ALPN list a ClientHello carries
MaxIssued == 2        \* certificates issued in a run (first issuance + renewals)
MaxValueLen == 2      \* longest generated value part of a string given to FromStr

\* --------------------------------------------------------------- constants
TLS_PORT == 443                       \* main.rs:144, main.rs:154
ACME_TLS_ALPN_NAME == "acme-tls/1"    \* rustls_acme, used by main.rs:192

Conns == 1..MaxConn
Ports == {80, TLS_PORT, 8080}
\* Protocol names a client offers: the reserved one and an application
\* protocol (the code only ever tests for the reserved name, so one
\* application protocol stands for all of them).
AlpnNames == {ACME_TLS_ALPN_NAME, "h2"}
Signals == {"SIGINT", "SIGTERM"}

Range(s) == {s[i] : i \in 1..Len(s)}

\* Lists of at most n protocol names, no name twice.
RECURSIVE SeqsUpTo(_)
SeqsUpTo(n) ==
    IF n = 0 THEN {<< >>}
    ELSE LET shorter == SeqsUpTo(n - 1)
         IN  shorter \cup
             UNION {{Append(s, a) : a \in AlpnNames \ Range(s)} :
                    s \in {t \in shorter : Len(t) = n - 1}}

\* The ALPN lists a client may put in its ClientHello (<< >>: no ALPN extension).
AlpnLists == SeqsUpTo(MaxAlpnLen)

\* main.rs:164: supported_alpn_protocols
supported_alpn_protocols == <<"h2", "http/1.1">>

\* What alpn_protocols of a config can hold: as created by the manager, or
\* extended by main.rs:167-172.
ConfigAlpnLists ==
    {<< >>, <<ACME_TLS_ALPN_NAME>>, supported_alpn_protocols,
     <<ACME_TLS_ALPN_NAME>> \o supported_alpn_protocols}

\* Section 4.1: the states of a certificate order.
OrderStates == {"Idle", "OrderRequested", "ValidationPending", "Validating",
                "Issued", "RenewalDue", "Failed"}
InProgress == {"OrderRequested", "ValidationPending", "Validating"}

\* Section 3: a certificate record pairs a chain with its private key; the
\* n-th issued record is [chain |-> n, key |-> n], 0 stands for "none yet".
CertRecords == [chain : 0..MaxIssued, key : 0..MaxIssued]
NoCert == [chain |-> 0, key |-> 0]

\* ------------------------------------------------------ tmdb.rs: Id data

\* u32 (tmdb.rs:24, 29) as two 16-bit limbs, value = hi * LIMB + lo
LIMB == 65536
U32 == [hi : 0..(LIMB - 1), lo : 0..(LIMB - 1)]
U32Zero == [hi |-> 0, lo |-> 0]
U32Max == [hi |-> LIMB - 1, lo |-> LIMB - 1]

\* the limb values the sample ids are made of
LimbSamples == {0, 9, 10, LIMB - 1}

\* tmdb.rs:20-31: enum Id { Tv { id: u32 }, Movie { id: u32 } }
IdKinds == {"Tv", "Movie"}
Ids == [kind : IdKinds, id : U32]
IdSamples == [kind : IdKinds, id : [hi : LimbSamples, lo : LimbSamples]]
NoId == [kind |-> "none", id |-> U32Zero]

\* Result<Id, InvalidId> (tmdb.rs:90-92, 140)
InvalidId == [ok |-> FALSE, kind |-> "none", id |-> U32Zero]
NotParsed == [ok |-> FALSE, kind |-> "unparsed", id |-> U32Zero]
IdOk(kind, id) == [ok |-> TRUE, kind |-> kind, id |-> id]
ParseResults == {InvalidId, NotParsed} \cup [ok : {TRUE}, kind : IdKinds, id : U32]

\* Strings are sequences of one-character strings.
Digits == <<"0", "1", "2", "3", "4", "5", "6", "7", "8", "9">>
TV_KEY == <<"t", "v">>
MOVIE_KEY == <<"m", "o", "v", "i", "e">>

\* The strings given to FromStr: a key, a ':' or none, and a value.
InputKeys == {<< >>, TV_KEY, MOVIE_KEY, <<"T", "V">>, <<"m", "o", "v">>}
ValueChars == {"0", "7", "+", "-", ":", "a"}
LongValues ==
    { <<"4", "2", "9", "4", "9", "6", "7", "2", "9", "5">>,
      <<"4", "2", "9", "4", "9", "6", "7", "2", "9", "6">>,
      <<"0", "4", "2", "9", "4", "9", "6", "7", "2", "9", "5">>,
      <<"+", "4", "2", "9", "4", "9", "6", "7", "2", "9", "5">>,
      <<"9", "9", "9", "9", "9", "9", "9", "9", "9", "9", "9">> }
ShortValues ==
    UNION {[1..n -> ValueChars] : n \in 0..MaxValueLen}
InputTexts ==
    {k \o sep \o v : k \in InputKeys, sep \in {<< >>, <<":">>},
                     v \in ShortValues \cup LongValues}

VARIABLES
    production,    \* config.production
    port,          \* addr.port()
    pc,            \* position of main / run / run_server
    mode,          \* serving mode run_server entered: "none", "plain", "encrypted"
    listener,      \* "unbound", "bound", "failed"
    acme_started,  \* AcmeConfig state created and its event loop spawned
    run_result,    \* what run(command) returned: "none", "Ok", "Err"
    exit_code,     \* process exit status, -1 while the process runs
    signal,        \* the signal delivered to the process, "none" before
    conn,          \* per connection: position of its handler
    hello,         \* per connection: ALPN list of the peeked ClientHello
    chosen,        \* per connection: bundle handed to into_stream
    req,           \* per connection: "idle" or "inflight"
    dispatched,    \* per connection: a request was given to the pipeline service
    hs_input,      \* per connection: the ClientHellos the full handshake is fed
    challenge_alpn, \* challenge_config.alpn_protocols
    default_alpn,  \* default_config.alpn_protocols
    acme_loop,     \* the task spawned at main.rs:173: "none", "running", "ended"
    order,         \* state of the lifecycle manager's certificate order
    default_cert,  \* certificate record the manager currently publishes
    resolved,      \* certificate record last handed to an ordinary handshake
    tmdb_phase,    \* tmdb::Id exercise: "idle", "start", "shown", "parsed", "done"
    tmdb_id,       \* the Id given to Display
    tmdb_text,     \* id.to_string()
    tmdb_parsed,   \* tmdb_text.parse::<Id>()
    tmdb_input,    \* a string given to FromStr
    tmdb_input_parsed  \* tmdb_input.parse::<Id>()

vars == <<production, port, pc, mode, listener, acme_started, run_result,
          exit_code, signal, conn, hello, chosen, req, dispatched, hs_input,
          challenge_alpn, default_alpn, acme_loop, order, default_cert,
          resolved, tmdb_phase, tmdb_id, tmdb_text, tmdb_parsed, tmdb_input,
          tmdb_input_parsed>>

connVars == <<conn, hello, chosen, req, dispatched, hs_input>>
alpnVars == <<challenge_alpn, default_alpn>>
mgrVars == <<acme_loop, order, default_cert, resolved>>
acmeVars == <<alpnVars, mgrVars>>
procVars == <<pc, mode, listener, acme_started, run_result, exit_code>>
cfgVars == <<production, port>>
tmdbVars == <<tmdb_phase, tmdb_id, tmdb_text, tmdb_parsed, tmdb_input,
              tmdb_input_parsed>>

TypeOK ==
    /\ production \in BOOLEAN
    /\ port \in Ports
    /\ pc \in {"logging", "run", "bind", "mode", "acme_setup", "alpn_setup",
               "accept_loop",
               "serve_plain", "run_returned", "exited", "killed"}
    /\ mode \in {"none", "plain", "encrypted"}
    /\ listener \in {"unbound", "bound", "failed"}
    /\ acme_started \in BOOLEAN
    /\ run_result \in {"none", "Ok", "Err"}
    /\ exit_code \in {-1, 0, 130, 143}
    /\ signal \in Signals \cup {"none"}
    /\ conn \in [Conns -> {"none", "peeking", "handshaking", "serving",
                           "closed", "panicked"}]
    /\ hello \in [Conns -> AlpnLists]
    /\ chosen \in [Conns -> {"none", "challenge", "default"}]
    /\ req \in [Conns -> {"idle", "inflight"}]
    /\ dispatched \in [Conns -> BOOLEAN]
    /\ hs_input \in [Conns -> {<< >>} \cup {<<a>> : a \in AlpnLists}]
    /\ challenge_alpn \in ConfigAlpnLists
    /\ default_alpn \in ConfigAlpnLists
    /\ acme_loop \in {"none", "running", "ended"}
    /\ order \in OrderStates
    /\ default_cert \in CertRecords
    /\ resolved \in CertRecords
    /\ tmdb_phase \in {"idle", "start", "shown", "parsed", "done"}
    /\ tmdb_id \in Ids \cup {NoId}
    /\ tmdb_parsed \in ParseResults
    /\ tmdb_input_parsed \in ParseResults

\* The tmdb::Id exercise is not under way.
TmdbIdle ==
    /\ tmdb_phase = "idle"
    /\ tmdb_id = NoId
    /\ tmdb_text = << >>
    /\ tmdb_parsed = NotParsed
    /\ tmdb_input = << >>
    /\ tmdb_input_parsed = NotParsed

\* The process as the operating system starts it.
ProcessStart ==
    /\ production \in BOOLEAN
    /\ port \in Ports
    /\ pc = "logging"
    /\ mode = "none"
    /\ listener = "unbound"
    /\ acme_started = FALSE
    /\ run_result = "none"
    /\ exit_code = -1
    /\ signal = "none"
    /\ conn = [c \in Conns |-> "none"]
    /\ hello = [c \in Conns |-> << >>]
    /\ chosen = [c \in Conns |-> "none"]
    /\ req = [c \in Conns |-> "idle"]
    /\ dispatched = [c \in Conns |-> FALSE]
    /\ hs_input = [c \in Conns |-> << >>]
    /\ challenge_alpn = << >>
    /\ default_alpn = << >>
    /\ acme_loop = "none"
    /\ order = "Idle"
    /\ default_cert = NoCert
    /\ resolved = NoCert

Init == ProcessStart /\ TmdbIdle

Running == pc \notin {"exited", "killed"}


\* ------------------------------------------------------- pure definitions

\* IsPlainMode with the two tests joined by "and".
IsPlainModeBoth(prod, p) == ~prod /\ p # TLS_PORT

\* main.rs:144  `!config.production || addr.port() != 443`
IsPlainMode(prod, p) == ~prod \/ p # TLS_PORT

\* is_tls_alpn_challenge as a membership test.
is_tls_alpn_challenge_any(alpn) == ACME_TLS_ALPN_NAME \in Range(alpn)

\* rustls_acme::is_tls_alpn_challenge, called at main.rs:192: the ALPN list
\* of the ClientHello equals the one-element list [ACME_TLS_ALPN_NAME].
is_tls_alpn_challenge(alpn) == alpn = <<ACME_TLS_ALPN_NAME>>

\* main.rs:192-197: the bundle handed to start_handshake.into_stream
ChooseBundle(alpn) ==
    IF is_tls_alpn_challenge(alpn) THEN "challenge" ELSE "default"

\* Status of a process ended by the default action of a signal (128 + number).
KillStatus(sig) == IF sig = "SIGINT" THEN 130 ELSE 143

\* tokio registers the handlers when shutdown_signal() is polled, which only
\* the plain branch (main.rs:145-147) does; main.rs:214-217 is unreachable.
HandlersInstalled == mode = "plain" /\ pc \in {"serve_plain", "run_returned"}

\* The handler task of c has ended: its locals (the peeked ClientHello, the
\* chosen config handle, the connection being served) are dropped with it.
TaskEnds(c, how) ==
    /\ conn' = [conn EXCEPT ![c] = how]
    /\ hello' = [hello EXCEPT ![c] = << >>]
    /\ chosen' = [chosen EXCEPT ![c] = "none"]
    /\ req' = [req EXCEPT ![c] = "idle"]
    /\ dispatched' = [dispatched EXCEPT ![c] = FALSE]
    /\ hs_input' = [hs_input EXCEPT ![c] = << >>]

\* The process has ended: its tasks, its sockets, the two configs and the
\* lifecycle manager are gone with it.
ProcessGone ==
    /\ conn' = [c \in Conns |-> "none"]
    /\ hello' = [c \in Conns |-> << >>]
    /\ chosen' = [c \in Conns |-> "none"]
    /\ req' = [c \in Conns |-> "idle"]
    /\ dispatched' = [c \in Conns |-> FALSE]
    /\ hs_input' = [c \in Conns |-> << >>]
    /\ challenge_alpn' = << >>
    /\ default_alpn' = << >>
    /\ acme_loop' = "none"
    /\ order' = "Idle"
    /\ default_cert' = NoCert
    /\ resolved' = NoCert

\* Connection ids are given out in accept order.
NextConn(c) == conn[c] = "none" /\ \A d \in Conns : d < c => conn[d] # "none"

\* ---------------------------------------------------------------- start-up

\* main.rs:313-319: a logging set-up error is printed and main returns.
SetupLogging ==
    /\ pc = "logging"
    /\ \E ok \in BOOLEAN :
         IF ok THEN pc' = "run" /\ exit_code' = exit_code
               ELSE pc' = "exited" /\ exit_code' = 0
    /\ UNCHANGED <<mode, listener, acme_started, run_result, signal>>
    /\ UNCHANGED <<cfgVars, tmdbVars, connVars, acmeVars>>

\* main.rs:222-230 and 114-139: configuration and database are loaded, the
\* router is built; each `?` may return the error from run.
RunPrelude ==
    /\ pc = "run"
    /\ \E ok \in BOOLEAN :
         IF ok THEN pc' = "bind" /\ run_result' = run_result
               ELSE pc' = "run_returned" /\ run_result' = "Err"
    /\ UNCHANGED <<mode, listener, acme_started, exit_code, signal>>
    /\ UNCHANGED <<cfgVars, tmdbVars, connVars, acmeVars>>

\* Bind with the error dropped instead of returned.
BindIgnoreError ==
    /\ pc = "bind"
    /\ \E ok \in BOOLEAN : listener' = IF ok THEN "bound" ELSE "failed"
    /\ pc' = "mode"
    /\ UNCHANGED <<mode, acme_started, run_result, exit_code, signal>>
    /\ UNCHANGED <<cfgVars, tmdbVars, connVars, acmeVars>>

\* main.rs:140-142: TcpListener::bind(addr).await.with_context(..)?
Bind ==
    /\ pc = "bind"
    /\ \E ok \in BOOLEAN :
         IF ok THEN /\ listener' = "bound"
                    /\ pc' = "mode"
                    /\ run_result' = run_result
               ELSE /\ listener' = "failed"
                    /\ pc' = "run_returned"
                    /\ run_result' = "Err"
    /\ UNCHANGED <<mode, acme_started, exit_code, signal>>
    /\ UNCHANGED <<cfgVars, tmdbVars, connVars, acmeVars>>

\* SelectMode with the certificate manager created ahead of the branch.
SelectModeAcmeFirst ==
    /\ pc = "mode"
    /\ acme_started' = TRUE
    /\ IF IsPlainMode(production, port)
          THEN mode' = "plain" /\ pc' = "serve_plain"
          ELSE mode' = "encrypted" /\ pc' = "accept_loop"
    /\ UNCHANGED <<listener, run_result, exit_code, signal>>
    /\ UNCHANGED <<cfgVars, tmdbVars, connVars, acmeVars>>

\* main.rs:144-154: the branch on (production, port)
SelectMode ==
    /\ pc = "mode"
    /\ IF IsPlainMode(production, port)
          THEN mode' = "plain" /\ pc' = "serve_plain"
          ELSE mode' = "encrypted" /\ pc' = "acme_setup"
    /\ UNCHANGED <<listener, acme_started, run_result, exit_code, signal>>
    /\ UNCHANGED <<cfgVars, tmdbVars, connVars, acmeVars>>

\* main.rs:155-166: the cache directory is looked up (`?`), the AcmeConfig
\* state is created and hands out its two rustls configs: the challenge
\* config advertising acme-tls/1, the default config advertising nothing.
AcmeSetup ==
    /\ pc = "acme_setup"
    /\ \E ok \in BOOLEAN :
         IF ok THEN /\ acme_started' = TRUE
                    /\ challenge_alpn' = <<ACME_TLS_ALPN_NAME>>
                    /\ default_alpn' = << >>
                    /\ pc' = "alpn_setup"
                    /\ run_result' = run_result
               ELSE /\ acme_started' = acme_started
                    /\ UNCHANGED alpnVars
                    /\ pc' = "run_returned"
                    /\ run_result' = "Err"
    /\ UNCHANGED <<mode, listener, exit_code, signal>>
    /\ UNCHANGED <<cfgVars, tmdbVars, connVars, mgrVars>>

\* ExtendIfExclusive that appends without asking for exclusive access.
ExtendAlways(alpn, exclusive) == alpn \o supported_alpn_protocols

\* main.rs:167-172: `if let Some(config) = Arc::get_mut(..)` extends the list
\* in place when the handle is the only one; otherwise nothing is done.
ExtendIfExclusive(alpn, exclusive) ==
    IF exclusive THEN alpn \o supported_alpn_protocols ELSE alpn

\* main.rs:164-181: both configs go through the in-place extension, then the
\* event loop is spawned.  Whether Arc::get_mut finds a handle exclusive
\* depends on whether the AcmeState keeps a handle to the config it handed
\* out; the source provides for both outcomes.
ExtendAlpn ==
    /\ pc = "alpn_setup"
    /\ \E exclusive_challenge, exclusive_default \in BOOLEAN :
         /\ challenge_alpn' = ExtendIfExclusive(challenge_alpn, exclusive_challenge)
         /\ default_alpn' = ExtendIfExclusive(default_alpn, exclusive_default)
    /\ acme_loop' = "running"
    /\ pc' = "accept_loop"
    /\ UNCHANGED <<mode, listener, acme_started, run_result, exit_code, signal>>
    /\ UNCHANGED <<cfgVars, tmdbVars, connVars, order, default_cert, resolved>>

\* main.rs:312-330: run's error is printed and logged, then main returns ();
\* the runtime is dropped with whatever tasks are still alive, and a main
\* that returns () gives exit status 0.
MainReturn ==
    /\ pc = "run_returned"
    /\ pc' = "exited"
    /\ exit_code' = 0
    /\ ProcessGone
    /\ UNCHANGED <<mode, listener, acme_started, run_result, signal>>
    /\ UNCHANGED <<cfgVars, tmdbVars>>

\* main.rs:91-111 and 146: SIGINT / SIGTERM.  With the handlers installed
\* the signal resolves shutdown_signal(); otherwise its default action ends
\* the process at once.
Signal ==
    /\ Running
    /\ signal = "none"
    /\ \E sig \in Signals :
         /\ signal' = sig
         /\ IF HandlersInstalled
               THEN /\ pc' = pc /\ exit_code' = exit_code
                    /\ UNCHANGED <<connVars, acmeVars>>
               ELSE /\ pc' = "killed" /\ exit_code' = KillStatus(sig)
                    /\ ProcessGone
    /\ UNCHANGED <<mode, listener, acme_started, run_result>>
    /\ UNCHANGED <<cfgVars, tmdbVars>>

\* ------------------------------------------------ plain mode (axum::serve)

\* main.rs:145-147: axum::serve accepts a connection and serves it on its own
\* task, straight into the make-service; after the signal it accepts no more.
PlainAccept(c) ==
    /\ pc = "serve_plain"
    /\ signal = "none"
    /\ NextConn(c)
    /\ conn' = [conn EXCEPT ![c] = "serving"]
    /\ UNCHANGED <<hello, chosen, req, dispatched, hs_input>>
    /\ UNCHANGED <<procVars, cfgVars, tmdbVars, signal, acmeVars>>

\* main.rs:146-150: with_graceful_shutdown returns once the signal has been
\* received and every connection is closed; run_server returns Ok(()).
PlainDrained ==
    /\ pc = "serve_plain"
    /\ signal # "none"
    /\ \A c \in Conns : conn[c] \in {"none", "closed"}
    /\ pc' = "run_returned"
    /\ run_result' = "Ok"
    /\ UNCHANGED <<mode, listener, acme_started, exit_code, signal>>
    /\ UNCHANGED <<cfgVars, tmdbVars, connVars, acmeVars>>

\* ------------------------------------------- encrypted mode (main.rs:183-211)

\* TlsAccept with the handler awaited in the loop instead of spawned.
TlsAcceptInline(c) ==
    /\ pc = "accept_loop"
    /\ NextConn(c)
    /\ \A d \in Conns : conn[d] \in {"none", "closed", "panicked"}
    /\ conn' = [conn EXCEPT ![c] = "peeking"]
    /\ UNCHANGED <<hello, chosen, req, dispatched, hs_input>>
    /\ UNCHANGED <<procVars, cfgVars, tmdbVars, signal, acmeVars>>

\* TlsAccept that extends the default config's ALPN list when the first
\* connection is accepted instead of at setup.
TlsAcceptExtends(c) ==
    /\ pc = "accept_loop"
    /\ NextConn(c)
    /\ conn' = [conn EXCEPT ![c] = "peeking"]
    /\ default_alpn' = IF default_alpn = << >> THEN supported_alpn_protocols
                                               ELSE default_alpn
    /\ UNCHANGED <<hello, chosen, req, dispatched, hs_input>>
    /\ UNCHANGED <<procVars, cfgVars, tmdbVars, signal, challenge_alpn, mgrVars>>

\* main.rs:184-189: accept, clone the two config handles, make the service
\* for the peer (infallible, ready at once) and spawn the handler task.
TlsAccept(c) ==
    /\ pc = "accept_loop"
    /\ NextConn(c)
    /\ conn' = [conn EXCEPT ![c] = "peeking"]
    /\ UNCHANGED <<hello, chosen, req, dispatched, hs_input>>
    /\ UNCHANGED <<procVars, cfgVars, tmdbVars, signal, acmeVars>>

\* main.rs:184: listener.accept().await.context("Failed during accept loop")?
AcceptError ==
    /\ pc = "accept_loop"
    /\ pc' = "run_returned"
    /\ run_result' = "Err"
    /\ UNCHANGED <<mode, listener, acme_started, exit_code, signal>>
    /\ UNCHANGED <<cfgVars, tmdbVars, connVars, acmeVars>>

\* Panic that takes the whole process down (abort instead of unwind).
PanicAbort(c) ==
    /\ TaskEnds(c, "panicked")
    /\ pc' = "killed"
    /\ exit_code' = 134
    /\ UNCHANGED <<mode, listener, acme_started, run_result>>
    /\ UNCHANGED <<cfgVars, tmdbVars, signal, acmeVars>>

\* `.unwrap()` on an Err inside the task spawned at main.rs:189: the panic
\* unwinds the task, the runtime catches it, the connection is dropped.
Panic(c) ==
    /\ TaskEnds(c, "panicked")
    /\ UNCHANGED <<procVars, cfgVars, tmdbVars, signal, acmeVars>>

\* Sections 4.1/4.3: what the manager can present through a bundle: the
\* validation token while an order awaits validation, the issued certificate
\* once there is one.
HasCertFor(bundle) ==
    IF bundle = "challenge" THEN order \in {"ValidationPending", "Validating"}
                            ELSE default_cert # NoCert

\* PeekHello with the certificate frozen into the handle at its first use
\* instead of looked up in the manager at each handshake.
PeekHelloStale(c) ==
    /\ Running
    /\ conn[c] = "peeking"
    /\ \E alpn \in AlpnLists :
         IF HasCertFor(ChooseBundle(alpn))
            THEN /\ hello' = [hello EXCEPT ![c] = alpn]
                 /\ chosen' = [chosen EXCEPT ![c] = ChooseBundle(alpn)]
                 /\ hs_input' = [hs_input EXCEPT ![c] = <<alpn>>]
                 /\ resolved' = IF ChooseBundle(alpn) = "default" /\ resolved = NoCert
                                   THEN default_cert ELSE resolved
                 /\ conn' = [conn EXCEPT ![c] = "handshaking"]
                 /\ UNCHANGED <<req, dispatched>>
            ELSE /\ TaskEnds(c, "panicked")
                 /\ resolved' = resolved
    /\ UNCHANGED <<procVars, cfgVars, tmdbVars, signal, alpnVars>>
    /\ UNCHANGED <<acme_loop, order, default_cert>>

\* PeekHello that reads the ClientHello off the socket and keeps nothing of
\* it for the handshake.
PeekHelloConsuming(c) ==
    /\ Running
    /\ conn[c] = "peeking"
    /\ \E alpn \in AlpnLists :
         IF HasCertFor(ChooseBundle(alpn))
            THEN /\ hello' = [hello EXCEPT ![c] = alpn]
                 /\ chosen' = [chosen EXCEPT ![c] = ChooseBundle(alpn)]
                 /\ hs_input' = [hs_input EXCEPT ![c] = << >>]
                 /\ resolved' = IF ChooseBundle(alpn) = "default"
                                   THEN default_cert ELSE resolved
                 /\ conn' = [conn EXCEPT ![c] = "handshaking"]
                 /\ UNCHANGED <<req, dispatched>>
            ELSE /\ TaskEnds(c, "panicked")
                 /\ resolved' = resolved
    /\ UNCHANGED <<procVars, cfgVars, tmdbVars, signal, alpnVars>>
    /\ UNCHANGED <<acme_loop, order, default_cert>>

\* main.rs:190-197: LazyConfigAcceptor resolves once the client's ClientHello
\* has arrived; the handler classifies it and starts into_stream with the
\* chosen config, which continues from the buffered ClientHello and asks the
\* manager for the certificate to present.  With nothing to present the
\* handshake fails right there and the unwrap at main.rs:194/196 panics.
PeekHello(c) ==
    /\ Running
    /\ conn[c] = "peeking"
    /\ \E alpn \in AlpnLists :
         IF HasCertFor(ChooseBundle(alpn))
            THEN /\ hello' = [hello EXCEPT ![c] = alpn]
                 /\ chosen' = [chosen EXCEPT ![c] = ChooseBundle(alpn)]
                 /\ hs_input' = [hs_input EXCEPT ![c] = <<alpn>>]
                 /\ resolved' = IF ChooseBundle(alpn) = "default"
                                   THEN default_cert ELSE resolved
                 /\ conn' = [conn EXCEPT ![c] = "handshaking"]
                 /\ UNCHANGED <<req, dispatched>>
            ELSE /\ TaskEnds(c, "panicked")
                 /\ resolved' = resolved
    /\ UNCHANGED <<procVars, cfgVars, tmdbVars, signal, alpnVars>>
    /\ UNCHANGED <<acme_loop, order, default_cert>>

\* main.rs:190: transport error or malformed/truncated ClientHello
PeekFail(c) ==
    /\ Running
    /\ conn[c] = "peeking"
    /\ Panic(c)

\* main.rs:194/196 then 199-206: the handshake completes and, on either
\* branch, the stream is given to serve_connection with the pipeline service.
\* into_stream has consumed start_handshake and the ClientHello it held.
HandshakeOk(c) ==
    /\ Running
    /\ conn[c] = "handshaking"
    /\ hs_input[c] # << >>
    /\ conn' = [conn EXCEPT ![c] = "serving"]
    /\ hello' = [hello EXCEPT ![c] = << >>]
    /\ hs_input' = [hs_input EXCEPT ![c] = << >>]
    /\ UNCHANGED <<chosen, req, dispatched>>
    /\ UNCHANGED <<procVars, cfgVars, tmdbVars, signal, acmeVars>>

\* main.rs:194/196: into_stream(..).await.unwrap() on a failed handshake
HandshakeFail(c) ==
    /\ Running
    /\ conn[c] = "handshaking"
    /\ Panic(c)

\* ------------------------------- lifecycle manager and its event loop

\* The event loop polls the manager only while the process and the task live.
ManagerRuns == Running /\ acme_loop = "running"

\* ManagerOrder that also starts an order straight from Issued.
ManagerOrderEager ==
    /\ order \in {"Idle", "RenewalDue", "Issued"}
    /\ order' = "OrderRequested"
    /\ default_cert' = default_cert

\* Section 4.1: Idle -> OrderRequested and RenewalDue -> OrderRequested
ManagerOrder ==
    /\ order \in {"Idle", "RenewalDue"}
    /\ order' = "OrderRequested"
    /\ default_cert' = default_cert

\* Section 4.1: OrderRequested -> ValidationPending -> Validating; the token
\* is retrievable through the challenge bundle from ValidationPending on.
ManagerValidate ==
    /\ \/ order = "OrderRequested" /\ order' = "ValidationPending"
       \/ order = "ValidationPending" /\ order' = "Validating"
    /\ default_cert' = default_cert

\* Section 4.1/3: Validating -> Issued; the new record replaces the old one
\* as a whole.
ManagerIssue ==
    /\ order = "Validating"
    /\ order' = "Issued"
    /\ default_cert' = [chain |-> default_cert.chain + 1,
                        key |-> default_cert.key + 1]

\* Section 4.1: any in-progress state -> Failed on a protocol error; the
\* published certificate is not touched.
ManagerFail ==
    /\ order \in InProgress
    /\ order' = "Failed"
    /\ default_cert' = default_cert

\* Section 4.1: Failed re-enters Idle after the backoff delay.
ManagerBackoff ==
    /\ order = "Failed"
    /\ order' = "Idle"
    /\ default_cert' = default_cert

\* Section 4.1: Issued -> (time passes) -> RenewalDue
ManagerRenewalDue ==
    /\ order = "Issued"
    /\ default_cert.chain < MaxIssued
    /\ order' = "RenewalDue"
    /\ default_cert' = default_cert

\* main.rs:175: state.next().await drives the manager; a poll that yields no
\* event leaves the loop waiting.
AcmeProgress ==
    /\ ManagerRuns
    /\ \/ ManagerOrder
       \/ ManagerValidate
       \/ ManagerBackoff
       \/ ManagerRenewalDue
    /\ UNCHANGED <<acme_loop, resolved, alpnVars>>
    /\ UNCHANGED <<procVars, cfgVars, tmdbVars, signal, connVars>>

\* AcmeEventOk after a swap that published the new chain without its key.
AcmeEventOkTorn ==
    /\ ManagerRuns
    /\ order = "Validating"
    /\ order' = "Issued"
    /\ default_cert' = [default_cert EXCEPT !.chain = @ + 1]
    /\ acme_loop' = "running"
    /\ UNCHANGED <<resolved, alpnVars>>
    /\ UNCHANGED <<procVars, cfgVars, tmdbVars, signal, connVars>>

\* main.rs:176: Some(Ok(ok)) => info!(..); the loop goes on.
AcmeEventOk ==
    /\ ManagerRuns
    /\ ManagerIssue
    /\ acme_loop' = "running"
    /\ UNCHANGED <<resolved, alpnVars>>
    /\ UNCHANGED <<procVars, cfgVars, tmdbVars, signal, connVars>>

\* AcmeEventErr that leaves the loop on an error.
AcmeEventErrBreak ==
    /\ ManagerRuns
    /\ ManagerFail
    /\ acme_loop' = "ended"
    /\ UNCHANGED <<resolved, alpnVars>>
    /\ UNCHANGED <<procVars, cfgVars, tmdbVars, signal, connVars>>

\* AcmeEventErr whose error arm also withdraws the published certificate.
AcmeEventErrDropsCert ==
    /\ ManagerRuns
    /\ order \in InProgress
    /\ order' = "Failed"
    /\ default_cert' = NoCert
    /\ acme_loop' = "running"
    /\ UNCHANGED <<resolved, alpnVars>>
    /\ UNCHANGED <<procVars, cfgVars, tmdbVars, signal, connVars>>

\* main.rs:177: Some(Err(err)) => error!(..); the loop goes on.
\* (main.rs:178, `None => break`, needs the event stream to end, which the
\* manager's stream never does.)
AcmeEventErr ==
    /\ ManagerRuns
    /\ ManagerFail
    /\ acme_loop' = "running"
    /\ UNCHANGED <<resolved, alpnVars>>
    /\ UNCHANGED <<procVars, cfgVars, tmdbVars, signal, connVars>>

\* ------------------------------------------------ serving (both modes)

\* A graceful shutdown in progress (plain mode only) lets a connection
\* finish the request it has but take no new one.
Draining == mode = "plain" /\ signal # "none"

\* RequestStart that also serves requests while the handshake is under way.
RequestStartEarly(c) ==
    /\ Running
    /\ conn[c] \in {"handshaking", "serving"}
    /\ req[c] = "idle"
    /\ ~Draining
    /\ req' = [req EXCEPT ![c] = "inflight"]
    /\ dispatched' = [dispatched EXCEPT ![c] = TRUE]
    /\ UNCHANGED <<conn, hello, chosen, hs_input>>
    /\ UNCHANGED <<procVars, cfgVars, tmdbVars, signal, acmeVars>>

\* main.rs:200-202 (encrypted) / axum::serve (plain): a request read from
\* the connection is dispatched to the pipeline service.
RequestStart(c) ==
    /\ Running
    /\ conn[c] = "serving"
    /\ req[c] = "idle"
    /\ ~Draining
    /\ req' = [req EXCEPT ![c] = "inflight"]
    /\ dispatched' = [dispatched EXCEPT ![c] = TRUE]
    /\ UNCHANGED <<conn, hello, chosen, hs_input>>
    /\ UNCHANGED <<procVars, cfgVars, tmdbVars, signal, acmeVars>>

\* The pipeline's response has been written.
RequestDone(c) ==
    /\ Running
    /\ conn[c] = "serving"
    /\ req[c] = "inflight"
    /\ req' = [req EXCEPT ![c] = "idle"]
    /\ UNCHANGED <<conn, hello, chosen, dispatched, hs_input>>
    /\ UNCHANGED <<procVars, cfgVars, tmdbVars, signal, acmeVars>>

\* main.rs:204-206: serve_connection returns Ok when the connection ends
\* between requests (client close, or graceful shutdown in plain mode).
ConnClose(c) ==
    /\ Running
    /\ conn[c] = "serving"
    /\ req[c] = "idle"
    /\ TaskEnds(c, "closed")
    /\ UNCHANGED <<procVars, cfgVars, tmdbVars, signal, acmeVars>>

\* main.rs:207-209: serve_connection returns Err (the peer went away in the
\* middle of a request); the error is printed and the task ends.
ConnError(c) ==
    /\ Running
    /\ conn[c] = "serving"
    /\ req[c] = "inflight"
    /\ TaskEnds(c, "closed")
    /\ UNCHANGED <<procVars, cfgVars, tmdbVars, signal, acmeVars>>

\* ------------------------------------------------------------ specification

ServerStep ==
    \/ SetupLogging
    \/ RunPrelude
    \/ Bind
    \/ SelectMode
    \/ AcmeSetup
    \/ ExtendAlpn
    \/ PlainDrained
    \/ MainReturn

Next ==
    \/ SetupLogging
    \/ RunPrelude
    \/ Bind
    \/ SelectMode
    \/ AcmeSetup
    \/ ExtendAlpn
    \/ AcmeProgress
    \/ AcmeEventOk
    \/ AcmeEventErr
    \/ MainReturn
    \/ Signal
    \/ PlainDrained
    \/ AcceptError
    \/ \E c \in Conns : PlainAccept(c)
    \/ \E c \in Conns : TlsAccept(c)
    \/ \E c \in Conns : PeekHello(c)
    \/ \E c \in Conns : PeekFail(c)
    \/ \E c \in Conns : HandshakeOk(c)
    \/ \E c \in Conns : HandshakeFail(c)
    \/ \E c \in Conns : RequestStart(c)
    \/ \E c \in Conns : RequestDone(c)
    \/ \E c \in Conns : ConnClose(c)
    \/ \E c \in Conns : ConnError(c)

Spec == Init /\ [][Next]_vars

\* The runtime keeps scheduling the server's own steps; what a client sends,
\* and when, is not under the server's control.
FairSpec == Spec /\ WF_vars(ServerStep)

\* ------------------------------------------- tmdb.rs: Display and FromStr

IsDigit(ch) == \E d \in 0..9 : Digits[d + 1] = ch
DigitValue(ch) == CHOOSE d \in 0..9 : Digits[d + 1] = ch

\* n divided by ten: quotient and remainder, limb by limb
DivMod10(n) ==
    LET t == (n.hi % 10) * LIMB + n.lo
    IN  [q |-> [hi |-> n.hi \div 10, lo |-> t \div 10], r |-> t % 10]

\* <u32 as Display>::fmt, reached from tmdb.rs:79 and 83 (`id.fmt(f)`): the
\* decimal digits, most significant first, no sign, no leading zero.
RECURSIVE u32_fmt(_)
u32_fmt(n) ==
    LET dm == DivMod10(n)
    IN  IF dm.q = U32Zero THEN <<Digits[dm.r + 1]>>
                          ELSE u32_fmt(dm.q) \o <<Digits[dm.r + 1]>>

\* acc.checked_mul(10)?.checked_add(d)?: ok is FALSE on overflow of the u32
CheckedMulAdd(acc, d) ==
    LET lo10 == acc.lo * 10 + d
        hi10 == acc.hi * 10 + (lo10 \div LIMB)
    IN  IF hi10 >= LIMB THEN [ok |-> FALSE, val |-> U32Zero]
                        ELSE [ok |-> TRUE,
                              val |-> [hi |-> hi10, lo |-> lo10 % LIMB]]

RECURSIVE ParseDigits(_, _)
ParseDigits(s, acc) ==
    IF s = << >> THEN [ok |-> TRUE, val |-> acc]
    ELSE IF ~IsDigit(Head(s)) THEN [ok |-> FALSE, val |-> U32Zero]
    ELSE LET step == CheckedMulAdd(acc, DigitValue(Head(s)))
         IN  IF step.ok THEN ParseDigits(Tail(s), step.val) ELSE step

\* <u32 as FromStr>::from_str, reached from tmdb.rs:97 and 98
\* (`value.parse()`): the empty string and a lone sign are errors, one
\* leading '+' is skipped, every other character must be a decimal digit
\* and the value must fit the u32.
u32_from_str(s) ==
    IF s = << >> \/ s = <<"+">> \/ s = <<"-">>
       THEN [ok |-> FALSE, val |-> U32Zero]
       ELSE ParseDigits(IF Head(s) = "+" THEN Tail(s) ELSE s, U32Zero)

\* tmdb.rs:74-87: impl Display for Id
fmt(id) ==
    IF id.kind = "Tv" THEN TV_KEY \o <<":">> \o u32_fmt(id.id)
                      ELSE MOVIE_KEY \o <<":">> \o u32_fmt(id.id)

\* s.split_once(':') (tmdb.rs:93): the place of the first ':', 0 for None
SplitAt(s) ==
    IF \E i \in 1..Len(s) : s[i] = ":"
       THEN CHOOSE i \in 1..Len(s) :
                s[i] = ":" /\ \A j \in 1..(i - 1) : s[j] # ":"
       ELSE 0

\* from_str whose "movie" arm builds a Tv.
from_str_movie_as_tv(s) ==
    LET at == SplitAt(s)
        key == SubSeq(s, 1, at - 1)
        value == u32_from_str(SubSeq(s, at + 1, Len(s)))
    IN  IF at = 0 THEN InvalidId
        ELSE IF key = TV_KEY
                THEN IF value.ok THEN IdOk("Tv", value.val) ELSE InvalidId
        ELSE IF key = MOVIE_KEY
                THEN IF value.ok THEN IdOk("Tv", value.val) ELSE InvalidId
        ELSE InvalidId

\* tmdb.rs:89-102: impl FromStr for Id
from_str(s) ==
    LET at == SplitAt(s)
        key == SubSeq(s, 1, at - 1)
        value == u32_from_str(SubSeq(s, at + 1, Len(s)))
    IN  IF at = 0 THEN InvalidId
        ELSE IF key = TV_KEY
                THEN IF value.ok THEN IdOk("Tv", value.val) ELSE InvalidId
        ELSE IF key = MOVIE_KEY
                THEN IF value.ok THEN IdOk("Movie", value.val) ELSE InvalidId
        ELSE InvalidId

\* An Id and a string are picked; the server is not started.
IdInit ==
    /\ ProcessStart
    /\ ~production /\ port = TLS_PORT
    /\ tmdb_phase = "start"
    /\ tmdb_id \in IdSamples
    /\ tmdb_input \in InputTexts
    /\ tmdb_text = << >>
    /\ tmdb_parsed = NotParsed
    /\ tmdb_input_parsed = NotParsed

\* id.to_string()
IdDisplay ==
    /\ tmdb_phase = "start"
    /\ tmdb_text' = fmt(tmdb_id)
    /\ tmdb_phase' = "shown"
    /\ UNCHANGED <<tmdb_id, tmdb_parsed, tmdb_input, tmdb_input_parsed>>
    /\ UNCHANGED <<cfgVars, procVars, signal, connVars, acmeVars>>

\* text.parse::<Id>() of the Display output
IdFromStr ==
    /\ tmdb_phase = "shown"
    /\ tmdb_parsed' = from_str(tmdb_text)
    /\ tmdb_phase' = "parsed"
    /\ UNCHANGED <<tmdb_id, tmdb_text, tmdb_input, tmdb_input_parsed>>
    /\ UNCHANGED <<cfgVars, procVars, signal, connVars, acmeVars>>

\* input.parse::<Id>() of the picked string
IdFromStrInput ==
    /\ tmdb_phase = "parsed"
    /\ tmdb_input_parsed' = from_str(tmdb_input)
    /\ tmdb_phase' = "done"
    /\ UNCHANGED <<tmdb_id, tmdb_text, tmdb_parsed, tmdb_input>>
    /\ UNCHANGED <<cfgVars, procVars, signal, connVars, acmeVars>>

IdNext ==
    \/ IdDisplay
    \/ IdFromStr
    \/ IdFromStrInput

IdSpec == IdInit /\ [][IdNext]_vars

\* ------------------------------------------------------------------ claims

AcmeInAlpn(c) == ACME_TLS_ALPN_NAME \in Range(hello[c])
AcmeOnlyAlpn(c) == Len(hello[c]) = 1 /\ hello[c][1] = ACME_TLS_ALPN_NAME
InHandshake(c) == conn[c] \in {"peeking", "handshaking"}

C2_ModeChosenOnce ==
    [][ /\ mode' # "none" =>
             /\ mode' = "encrypted" <=> (production' /\ port' = 443)
             /\ mode' = "plain" <=> (~production' \/ port' # 443)
        /\ mode # "none" => mode' = mode ]_vars

C2_Witness ==
    /\ mode = "encrypted" /\ production /\ port = 443
    /\ \E c \in Conns : conn[c] = "serving"

\* C3: with production unset or a port other than 443, no connection is ever
\* peeked, classified or put through a handshake, accepted connections are
\* served directly, and the certificate manager is never started.
C3_PlainModeNoTls ==
    (~production \/ port # 443) =>
        /\ ~acme_started
        /\ mode # "encrypted"
        /\ \A c \in Conns :
             /\ conn[c] \in {"none", "serving", "closed"}
             /\ chosen[c] = "none"
             /\ hello[c] = << >>

C3_Witness ==
    /\ production /\ port # 443 /\ mode = "plain"
    /\ \E c \in Conns : conn[c] = "serving" /\ dispatched[c]

\* C4 (as stated): a connection classified as a probe never reaches the
\* pipeline: it is never served and none of its requests is dispatched.
C4_ProbeNeverReachesPipeline ==
    \A c \in Conns :
        chosen[c] = "challenge" => conn[c] # "serving" /\ ~dispatched[c]

\* C5 (as stated): once a signal has been received no connection is accepted
\* any more, and the process does not end while a request is in flight.
C5_GracefulShutdown ==
    [][ signal' # "none" =>
            /\ \A c \in Conns : conn[c] = "none" => conn'[c] = "none"
            /\ ~Running' => \A c \in Conns : req[c] # "inflight" ]_vars

\* C6: a step in which a connection's peek or handshake fails leaves the
\* accept loop where it is, the process alive and every other connection
\* exactly as it was.
C6_FailureIsolated ==
    [][ \A c \in Conns :
            (InHandshake(c) /\ conn'[c] = "panicked") =>
                /\ pc' = pc
                /\ exit_code' = exit_code
                /\ \A d \in Conns \ {c} :
                     /\ conn'[d] = conn[d]
                     /\ req'[d] = req[d]
                     /\ dispatched'[d] = dispatched[d]
                     /\ chosen'[d] = chosen[d] ]_vars

C6_Witness ==
    /\ pc = "accept_loop"
    /\ \E c, d \in Conns :
         /\ conn[c] = "panicked"
         /\ conn[d] = "serving" /\ req[d] = "inflight"

\* C7 (as stated): every handler that is waiting for a ClientHello or for the
\* end of a handshake eventually stops waiting.
C7_HandshakeEventuallyEnds ==
    \A c \in Conns :
        InHandshake(c) ~> (~InHandshake(c) \/ ~Running)

\* C8: while the accept loop runs and a client is still to connect, accepting
\* is possible whatever the earlier connections are doing.
C8_AcceptNeverBlocked ==
    (pc = "accept_loop" /\ \E c \in Conns : conn[c] = "none") =>
        \E c \in Conns : ENABLED TlsAccept(c)

C8_Witness ==
    /\ pc = "accept_loop"
    /\ \E c, d \in Conns : c < d /\ conn[c] = "peeking" /\ conn[d] = "serving"

\* C9: after a failed bind run_server has returned the error: no mode was
\* entered, the certificate manager was not created, nothing was accepted.
C9_BindFailureAborts ==
    listener = "failed" =>
        /\ run_result = "Err"
        /\ pc \in {"run_returned", "exited", "killed"}
        /\ mode = "none"
        /\ ~acme_started
        /\ \A c \in Conns : conn[c] = "none"

C9_Witness == listener = "failed" /\ pc = "exited"

\* C10 (as stated): a process that exits after a failed bind exits with a
\* non-zero status.
C10_BindFailureExitsNonZero ==
    (listener = "failed" /\ ~Running) => exit_code # 0

\* C11: a failed order never stops the event loop or the server.  The step
\* that reports the failure leaves the event loop running, the accept loop
\* where it is and every connection untouched; while the process lives the
\* event loop never ends, and a failed order goes nowhere but back to Idle.
C11_FailureNeverStopsServer ==
    [][ /\ (order' = "Failed" /\ order # "Failed") =>
              /\ acme_loop' = "running"
              /\ UNCHANGED <<procVars, signal, connVars>>
        /\ (acme_loop = "running" /\ Running') => acme_loop' = "running"
        /\ (order = "Failed" /\ Running') => order' \in {"Failed", "Idle"} ]_vars

C11_Witness ==
    /\ order = "Failed" /\ acme_loop = "running" /\ pc = "accept_loop"
    /\ default_cert # NoCert
    /\ \E c, d \in Conns :
         /\ conn[c] = "serving" /\ req[c] = "inflight"
         /\ conn[d] = "peeking"

\* A step in which the handler of c classifies the connection as ordinary and
\* starts the handshake with the default bundle.
OrdinaryClassified(c) ==
    conn[c] = "peeking" /\ conn'[c] = "handshaking" /\ chosen'[c] = "default"

\* C12: while the process lives a populated default bundle is never empty
\* again; the step that reports a failed order leaves the bundle as it is; and
\* an ordinary connection classified while the order is failed or in progress
\* is handed the certificate published last.
C12_DefaultBundleSurvivesFailure ==
    [][ /\ (default_cert # NoCert /\ Running') => default_cert' # NoCert
        /\ (order' = "Failed" /\ order # "Failed") => default_cert' = default_cert
        /\ \A c \in Conns :
             (OrdinaryClassified(c) /\ order \in InProgress \cup {"Failed"}) =>
                 /\ default_cert # NoCert
                 /\ resolved' = default_cert ]_vars

C12_Witness ==
    /\ order = "Failed" /\ default_cert # NoCert
    /\ resolved = default_cert
    /\ \E c \in Conns : conn[c] = "handshaking" /\ chosen[c] = "default"

\* C13: an ordinary connection classified after an issuance is handed the
\* certificate that issuance published, the first one or a renewal, not an
\* earlier one.
C13_NewConnectionsSeeNewCert ==
    [][ \A c \in Conns :
            OrdinaryClassified(c) =>
                /\ default_cert # NoCert
                /\ resolved' = default_cert ]_vars

C13_Witness ==
    /\ default_cert.chain = 2
    /\ resolved = default_cert
    /\ \E c, d \in Conns :
         /\ c < d
         /\ conn[c] = "serving" /\ chosen[c] = "default"
         /\ conn[d] = "handshaking" /\ chosen[d] = "default"

\* C14: the certificate record published in the default bundle, and the one
\* handed to a handshake, always pair a chain with the key issued with it,
\* whatever the order of renewal swaps and handshakes.
C14_NoTornCertificate ==
    /\ default_cert.chain = default_cert.key
    /\ resolved.chain = resolved.key

C14_Witness ==
    /\ default_cert.chain = 2 /\ resolved.chain = 1
    /\ \E c \in Conns : conn[c] = "handshaking" /\ chosen[c] = "default"

\* C15: once an order is Issued the manager swaps nothing and starts nothing
\* until the renewal threshold is reached (RenewalDue); and every swap is the
\* single step Validating -> Issued, publishing exactly one new certificate.
C15_RenewalIdempotent ==
    [][ /\ (order = "Issued" /\ Running') =>
              /\ default_cert' = default_cert
              /\ order' \in {"Issued", "RenewalDue"}
        /\ (default_cert' # default_cert /\ Running') =>
              /\ order = "Validating" /\ order' = "Issued"
              /\ default_cert'.chain = default_cert.chain + 1 ]_vars

C15_Witness ==
    /\ order = "Issued" /\ default_cert.chain = 2
    /\ acme_loop = "running"

\* C16: in encrypted mode every connection goes through classification, then
\* the handshake with the chosen bundle, then request processing, in that
\* order: a handshake starts only out of the peek and with a bundle chosen,
\* serving starts only out of a handshake, and a request is dispatched only on
\* a connection that is being served.
C16_ClassifyHandshakeServe ==
    [][ mode = "encrypted" =>
          \A c \in Conns :
            /\ (conn'[c] = "peeking" /\ conn[c] # "peeking") =>
                   conn[c] = "none" /\ chosen'[c] = "none"
            /\ (conn'[c] = "handshaking" /\ conn[c] # "handshaking") =>
                   conn[c] = "peeking" /\ chosen'[c] # "none"
            /\ (conn'[c] = "serving" /\ conn[c] # "serving") =>
                   conn[c] = "handshaking" /\ chosen'[c] = chosen[c]
            /\ (req'[c] = "inflight" /\ req[c] # "inflight") =>
                   conn[c] = "serving" /\ chosen[c] # "none"
            /\ (dispatched'[c] /\ ~dispatched[c]) => conn[c] = "serving" ]_vars

C16_Witness ==
    /\ mode = "encrypted"
    /\ \E c, d \in Conns :
         /\ conn[c] = "serving" /\ chosen[c] = "default" /\ req[c] = "inflight"
         /\ conn[d] = "handshaking" /\ ~dispatched[d]

\* C17 (as stated): once the manager has created the two bundles nobody
\* modifies a field of either in place; in particular the setup code of
\* run_server does not.
C17_NoInPlaceModification ==
    [][ (pc # "acme_setup" /\ Running') =>
            UNCHANGED <<challenge_alpn, default_alpn>> ]_vars

\* C17 (amended): the certificate in the default bundle is written by the
\* running manager only.  The ALPN lists are written once more after their
\* creation, by the setup code of run_server: it appends the application
\* protocols to a list, or leaves it alone, before the event loop is spawned
\* and before any connection is accepted; afterwards no list ever changes.
C17_OnlySetupExtendsAlpn ==
    [][ /\ (default_cert' # default_cert /\ Running') => acme_loop = "running"
        /\ (pc = "alpn_setup" /\ Running') =>
              /\ challenge_alpn' \in
                    {challenge_alpn, challenge_alpn \o supported_alpn_protocols}
              /\ default_alpn' \in
                    {default_alpn, default_alpn \o supported_alpn_protocols}
              /\ acme_loop = "none"
              /\ \A c \in Conns : conn[c] = "none"
        /\ (pc \notin {"acme_setup", "alpn_setup"} /\ Running') =>
              UNCHANGED <<challenge_alpn, default_alpn>> ]_vars

C17_Witness ==
    /\ pc = "accept_loop" /\ order = "Issued"
    /\ challenge_alpn = <<ACME_TLS_ALPN_NAME>> \o supported_alpn_protocols
    /\ default_alpn = supported_alpn_protocols
    /\ \E c \in Conns : conn[c] = "serving"

\* C18 (as stated): once the bundles are set up, acme-tls/1 is advertised by
\* the challenge bundle and not by the default bundle, and h2 and http/1.1
\* are not advertised by the challenge bundle.
C18_AlpnPartitionedByPath ==
    pc = "accept_loop" =>
        /\ ACME_TLS_ALPN_NAME \in Range(challenge_alpn)
        /\ ACME_TLS_ALPN_NAME \notin Range(default_alpn)
        /\ Range(challenge_alpn) \cap Range(supported_alpn_protocols) = {}

\* C19 (as stated): whenever a connection is in its handshake or served on
\* the ordinary path, the default bundle advertises h2, then http/1.1.
C19_DefaultAdvertisesH2ThenHttp1 ==
    \A c \in Conns :
        (conn[c] \in {"handshaking", "serving"} /\ chosen[c] = "default") =>
            default_alpn = supported_alpn_protocols

\* C20: the handshake of a classified connection starts from exactly the
\* ClientHello the client sent and the classifier looked at, on the probe
\* path and on the ordinary path alike, so it is able to complete.
C20_PeekKeepsClientHello ==
    \A c \in Conns :
        conn[c] = "handshaking" =>
            /\ chosen[c] \in {"challenge", "default"}
            /\ hs_input[c] = <<hello[c]>>
            /\ ENABLED HandshakeOk(c)

C20_Witness ==
    \E c, d \in Conns :
        /\ conn[c] = "handshaking" /\ chosen[c] = "challenge"
        /\ hs_input[c] = <<(<<ACME_TLS_ALPN_NAME>>)>>
        /\ conn[d] = "handshaking" /\ chosen[d] = "default"
        /\ hs_input[d] = <<(<<"h2">>)>>

Alive(c) == conn[c] \in {"peeking", "handshaking", "serving"}

\* C21 (as stated): the failed accept makes run_server return the error with
\* the handler tasks left as they are; from then on no connection is accepted
\* and, unless a signal kills the process, no handler task that is still
\* alive is taken away.
C21_AcceptErrorKeepsHandlers ==
    [][ /\ (pc = "accept_loop" /\ pc' = "run_returned") =>
              /\ run_result' = "Err"
              /\ UNCHANGED connVars
        /\ (mode = "encrypted" /\ run_result = "Err" /\ pc' # "killed") =>
              \A c \in Conns :
                  /\ conn[c] = "none" => conn'[c] = "none"
                  /\ Alive(c) => conn'[c] # "none" ]_vars

\* A decimal numeral of a u32, said without parsing it: an optional '+', then
\* at least one digit and digits only, which, leading zeros aside, are fewer
\* than ten or are ten and not beyond 4294967295.
RECURSIVE StripZeros(_)
StripZeros(s) ==
    IF s # << >> /\ Head(s) = "0" THEN StripZeros(Tail(s)) ELSE s

U32_MAX_TEXT == <<"4", "2", "9", "4", "9", "6", "7", "2", "9", "5">>

NotBeyond(a, b) ==
    \/ a = b
    \/ \E i \in 1..Len(a) :
          /\ DigitValue(a[i]) < DigitValue(b[i])
          /\ \A j \in 1..(i - 1) : a[j] = b[j]

IsU32Text(v) ==
    LET d == IF v # << >> /\ Head(v) = "+" THEN Tail(v) ELSE v
        z == StripZeros(d)
    IN  /\ d # << >>
        /\ \A i \in 1..Len(d) : IsDigit(d[i])
        /\ \/ Len(z) < Len(U32_MAX_TEXT)
           \/ Len(z) = Len(U32_MAX_TEXT) /\ NotBeyond(z, U32_MAX_TEXT)

\* A string with no ':', or whose part before the first ':' is neither "tv"
\* nor "movie", or whose part after it is not a u32.
Malformed(s) ==
    \/ \A i \in 1..Len(s) : s[i] # ":"
    \/ \E i \in 1..Len(s) :
          /\ s[i] = ":" /\ \A j \in 1..(i - 1) : s[j] # ":"
          /\ \/ SubSeq(s, 1, i - 1) \notin {TV_KEY, MOVIE_KEY}
             \/ ~IsU32Text(SubSeq(s, i + 1, Len(s)))

\* C22: the Display output of an Id is "tv:" or "movie:" followed by digits
\* and parses back to the same Id; a string with no ':', with another key or
\* with a value that is not a u32 parses to InvalidId.
C22_IdRoundTrips ==
    /\ tmdb_phase \in {"shown", "parsed", "done"} =>
          LET key == IF tmdb_id.kind = "Tv" THEN TV_KEY ELSE MOVIE_KEY
              n == Len(key)
          IN  /\ SubSeq(tmdb_text, 1, n + 1) = key \o <<":">>
              /\ Len(tmdb_text) > n + 1
              /\ \A i \in (n + 2)..Len(tmdb_text) : IsDigit(tmdb_text[i])
    /\ tmdb_phase \in {"parsed", "done"} =>
          tmdb_parsed = IdOk(tmdb_id.kind, tmdb_id.id)
    /\ (tmdb_phase = "done" /\ Malformed(tmdb_input)) =>
          tmdb_input_parsed = InvalidId

C22_Witness ==
    /\ tmdb_phase = "done"
    /\ tmdb_id = [kind |-> "Movie", id |-> U32Max]
    /\ tmdb_text = MOVIE_KEY \o <<":">> \o U32_MAX_TEXT
    /\ tmdb_parsed = IdOk("Movie", U32Max)
    /\ tmdb_input = TV_KEY \o <<":", "4", "2", "9", "4", "9", "6", "7", "2", "9", "6">>
    /\ tmdb_input_parsed = InvalidId

=============================================================================
